---------------------------- MODULE Spec2Model ----------------------------
(***************************************************************************)
(* CivicLens backend: the Express router, the authenticate / authorize     *)
(* middlewares, the Gemini classifier and the issue controller, modelled   *)
(* as a state machine.  Every await of the code is a step boundary: a      *)
(* request leaves an action with an external call in flight and the next   *)
(* action of that request is the call's resolution (value, error object or *)
(* exception) followed by the synchronous code up to the next await.       *)
(***************************************************************************)
EXTENDS Integers, Sequences, FiniteSets, TLC

(***************************************************************************)
(* Bounds of the model.                                                    *)
(***************************************************************************)
MaxRequests == 2
MaxSerial == 3
MaxCreates == 2
MaxIssues == 2

(***************************************************************************)
(* JavaScript values.  A string is the sequence of its characters, so that *)
(* toLowerCase, replace and trim act on it as they do in the code.         *)
(***************************************************************************)
Undef == [t |-> "undefined"]
Null == [t |-> "null"]
Str(s) == [t |-> "string", s |-> s]
Bool(b) == [t |-> "boolean", b |-> b]
Num(n) == [t |-> "number", n |-> n]

\* JavaScript truthiness: !v is ~Truthy(v)
Truthy(v) ==
  CASE v.t = "string" -> Len(v.s) > 0
    [] v.t = "boolean" -> v.b
    [] v.t = "number" -> v.n # 0
    [] OTHER -> FALSE

\* a || b
OrElse(a, b) == IF Truthy(a) THEN a ELSE b

Upper == <<"A","B","C","D","E","F","G","H","I","J","K","L","M",
           "N","O","P","Q","R","S","T","U","V","W","X","Y","Z">>
Lower == <<"a","b","c","d","e","f","g","h","i","j","k","l","m",
           "n","o","p","q","r","s","t","u","v","w","x","y","z">>
WhiteSpace == {" ", "\t", "\n"}

\* String.prototype.toLowerCase
toLowerCase(s) ==
  [i \in 1..Len(s) |->
     IF \E k \in 1..26 : Upper[k] = s[i]
     THEN Lower[CHOOSE k \in 1..26 : Upper[k] = s[i]]
     ELSE s[i]]

\* s.replace(/[-_ ]/g, '')
stripSeparators(s) == SelectSeq(s, LAMBDA c : c \notin {"-", "_", " "})

\* String.prototype.trim
RECURSIVE trimStart(_)
trimStart(s) ==
  IF s # <<>> /\ Head(s) \in WhiteSpace THEN trimStart(Tail(s)) ELSE s
RECURSIVE trimEnd(_)
trimEnd(s) ==
  IF s # <<>> /\ s[Len(s)] \in WhiteSpace
  THEN trimEnd(SubSeq(s, 1, Len(s) - 1)) ELSE s
trim(s) == trimEnd(trimStart(s))

\* String(v) for the values a request body or the classifier can carry
StringOf(v) ==
  CASE v.t = "string" -> v.s
    [] v.t = "boolean" -> IF v.b THEN <<"t","r","u","e">> ELSE <<"f","a","l","s","e">>
    [] v.t = "null" -> <<"n","u","l","l">>
    [] OTHER -> <<"u","n","d","e","f","i","n","e","d">>

(***************************************************************************)
(* String literals of the code.                                            *)
(***************************************************************************)
CITIZEN == Str(<<"c","i","t","i","z","e","n">>)
HEAD_AUTHORITY == Str(<<"h","e","a","d","_","a","u","t","h","o","r","i","t","y">>)
REPORTED == Str(<<"r","e","p","o","r","t","e","d">>)
IN_PROGRESS == Str(<<"i","n","_","p","r","o","g","r","e","s","s">>)
RESOLVED == Str(<<"r","e","s","o","l","v","e","d">>)
OTHER_TYPE == Str(<<"o","t","h","e","r">>)
HEAD_DEPT == Str(<<"h","e","a","d">>)
NOT_CIVIC_TYPE == Str(<<"N","o","t"," ","a"," ","c","i","v","i","c"," ","i","s","s","u","e">>)
NONE_DEPT == Str(<<"n","o","n","e">>)

\* the statuses updateStatus accepts
ValidStatuses == {REPORTED, IN_PROGRESS, RESOLVED}

(***************************************************************************)
(* authenticate: role normalization.  The result is the role, or "throws"  *)
(* when role.toLowerCase is not a function (a truthy non-string role).     *)
(***************************************************************************)
normalizeRole(role) ==
  IF ~Truthy(role) THEN CITIZEN
  ELSE IF role.t # "string" THEN [t |-> "throws"]
  ELSE LET r == trim(stripSeparators(toLowerCase(role.s)))
       IN IF \/ r = <<"h","e","a","d","a","u","t","h","o","r","i","t","y">>
             \/ r = <<"a","u","t","h","o","r","i","t","y","h","e","a","d">>
             \/ r = <<"a","d","m","i","n">>
          THEN HEAD_AUTHORITY
          ELSE CITIZEN

(***************************************************************************)
(* The external collaborators' data: the identity provider's principals    *)
(* and the rows of the profiles table.                                     *)
(***************************************************************************)
UserIds == {"u_cit", "u_adm", "u_head"}

\* rows of the profiles table (Null: no row, maybeSingle yields null)
Profiles ==
  [u \in UserIds |->
     CASE u = "u_cit" -> [role |-> Str(<<"c","i","t","i","z","e","n">>), department |-> Null]
       [] u = "u_adm" -> [role |-> Str(<<"A","d","m","i","n">>), department |-> Str(<<"r","o","a","d">>)]
       [] OTHER -> Null]

\* user_metadata held by the identity provider when the system starts
InitialMetadata ==
  [u \in UserIds |->
     CASE u = "u_cit" -> [role |-> Undef, department |-> Undef]
       [] u = "u_adm" -> [role |-> HEAD_AUTHORITY, department |-> Str(<<"r","o","a","d">>)]
       [] OTHER -> [role |-> Str(<<"A","u","t","h","o","r","i","t","y"," ","H","e","a","d">>),
                    department |-> Undef]]

(***************************************************************************)
(* The router: each route's middleware chain and handler.                  *)
(***************************************************************************)
GuardedRoutes ==
  {"createIssue", "getMyIssues", "getAuthorityIssues", "updateStatus",
   "reassignIssue", "deleteIssue", "bulkDeleteIssues"}
PublicRoutes == {"getAllIssues", "getIssueById"}
Routes == GuardedRoutes \cup PublicRoutes


\* Mutation of allowedRoles: every guarded route lets both roles through.
allowedRolesBoth(route) == {CITIZEN, HEAD_AUTHORITY}

\* the argument of authorize([...]) on each guarded route
allowedRoles(route) ==
  IF route \in {"createIssue", "getMyIssues"} THEN {CITIZEN} ELSE {HEAD_AUTHORITY}

(***************************************************************************)
(* State.                                                                  *)
(*   req        the requests in flight, one per connection slot            *)
(*   issues     the issues table: id -> row, Null where no row is stored   *)
(*   logs       the issue_logs table, in insertion order                   *)
(*   userMeta   the identity provider's user_metadata of each principal    *)
(*   metaWrite  the detached updateUserById call of each request           *)
(*   started    the number of requests received so far                     *)
(*   nextId     the id the issues table gives its next row                 *)
(***************************************************************************)
VARIABLES req, issues, logs, userMeta, metaWrite, started, nextId
vars == <<req, issues, logs, userMeta, metaWrite, started, nextId>>

Slots == {"s1", "s2"}
IssueIds == 1..MaxIssues
Serials == 1..(MaxRequests + MaxSerial + MaxCreates)

\* response bodies
NoBody == [kind |-> "none"]
ErrorBody(e) == [kind |-> "error", error |-> e]
DetailBody(e, d) == [kind |-> "error", error |-> e, details |-> d]
RowBody(row) == [kind |-> "row", row |-> row]
ListBody(rows) == [kind |-> "rows", rows |-> rows]

\* a connection slot with no request in it
Idle ==
  [pc |-> "idle", n |-> 0, route |-> "none", user |-> Null,
   params |-> Null, reqBody |-> Null, locals |-> Null,
   calls |-> <<>>, failed |-> {}, resStatus |-> 0, resBody |-> NoBody]

NoWrite == [st |-> "none"]

Init ==
  /\ req = [s \in Slots |-> Idle]
  /\ issues = [i \in IssueIds |-> Null]
  /\ logs = <<>>
  /\ userMeta = InitialMetadata
  /\ metaWrite = [n \in Serials |-> NoWrite]
  /\ started = 0
  /\ nextId = 1

\* res.status(code).json(body): the request is answered
Respond(r, code, body) ==
  [r EXCEPT !.pc = "done", !.resStatus = code, !.resBody = body]

\* the request issues an external call and awaits it: pc names the call
Await(r, call) == [r EXCEPT !.pc = call, !.calls = Append(@, call)]

\* how an awaited call of the data store or identity provider can resolve
Outcomes == {"ok", "error", "throws"}

\* the call request r awaits has resolved with outcome o: a call that returned
\* an error or threw is kept in r.failed (the outcome of the log insert is
\* kept in locals.logOutcome)
Settled(r, o) == IF o = "ok" THEN r ELSE [r EXCEPT !.failed = @ \cup {r.pc}]

\* a value as the data store keeps it: an undefined key is dropped from the
\* JSON payload, and the column is left null
Column(v) == IF v = Undef THEN Null ELSE v

(***************************************************************************)
(* classifyIssue.  What the outside world does during one call is an       *)
(* outcome record: whether the image fetch and the model call succeed,     *)
(* whether the reply text holds a {...} block, and what JSON.parse makes   *)
(* of that block (Null: it throws).                                        *)
(***************************************************************************)
NOT_CIVIC_ERROR == Str(<<"n","o","t"," ","c","i","v","i","c">>)
POTHOLE == Str(<<"p","o","t","h","o","l","e">>)
ROAD == Str(<<"r","o","a","d">>)
GARBAGE == Str(<<"g","a","r","b","a","g","e">>)
DRAINAGE == Str(<<"d","r","a","i","n","a","g","e">>)

AiObject(type, authority, error) ==
  [issue_type |-> type, assigned_authority |-> authority, error |-> error]

FetchThrows == [fetch |-> "throws", generate |-> "ok", jsonMatch |-> FALSE, json |-> Null]
ModelThrows == [fetch |-> "ok", generate |-> "throws", jsonMatch |-> FALSE, json |-> Null]
NoJsonBlock == [fetch |-> "ok", generate |-> "ok", jsonMatch |-> FALSE, json |-> Null]
BadJson == [fetch |-> "ok", generate |-> "ok", jsonMatch |-> TRUE, json |-> Null]
Reply(obj) == [fetch |-> "ok", generate |-> "ok", jsonMatch |-> TRUE, json |-> obj]

\* the outcomes in which the fetch, the model call or the parsing fails
ClassifierFailures == {FetchThrows, ModelThrows, NoJsonBlock, BadJson}

\* the objects a reply can parse to
ReplyObjects ==
  {AiObject(POTHOLE, ROAD, Undef),
   AiObject(OTHER_TYPE, HEAD_DEPT, Undef),
   AiObject(Undef, Undef, NOT_CIVIC_ERROR),
   AiObject(GARBAGE, GARBAGE, Str(<<>>)),
   AiObject(Undef, Undef, Undef)}

\* the catch block's fallback classification
FallbackClassification == AiObject(OTHER_TYPE, HEAD_DEPT, Undef)


\* Mutation of classifyIssue: a failure is reported as an error result instead
\* of being replaced by the fallback classification.
classifyIssuePropagates(o) ==
  IF o.fetch = "throws" \/ o.generate = "throws" \/ ~o.jsonMatch \/ o.json = Null
  THEN AiObject(NOT_CIVIC_TYPE, NONE_DEPT, NOT_CIVIC_ERROR)
  ELSE IF Truthy(o.json.error)
       THEN AiObject(NOT_CIVIC_TYPE, NONE_DEPT, o.json.error)
       ELSE o.json

classifyIssue(o) ==
  IF o.fetch = "throws" \/ o.generate = "throws" THEN FallbackClassification
  ELSE IF ~o.jsonMatch THEN FallbackClassification
  ELSE IF o.json = Null THEN FallbackClassification
  ELSE IF Truthy(o.json.error)
       THEN AiObject(NOT_CIVIC_TYPE, NONE_DEPT, o.json.error)
       ELSE o.json

(***************************************************************************)
(* createIssue                                                             *)
(***************************************************************************)
\* the manual-report check
isManual(b) ==
  \/ b.is_manual_submission = Bool(TRUE)
  \/ Truthy(b.manual_department) /\ trim(StringOf(b.manual_department)) # <<>>
  \/ Truthy(b.manual_issue_type) /\ trim(StringOf(b.manual_issue_type)) # <<>>

finalDepartment(b, aiResult) == OrElse(b.manual_department, aiResult.assigned_authority)
finalIssueType(b, aiResult) == OrElse(b.manual_issue_type, aiResult.issue_type)

issueData(citizen_id, b, aiResult) ==
  [citizen_id |-> citizen_id,
   image_url |-> b.image_url,
   description |-> b.description,
   location_lat |-> b.location_lat,
   location_lng |-> b.location_lng,
   issue_type |-> finalIssueType(b, aiResult),
   assigned_authority |-> finalDepartment(b, aiResult),
   department |-> finalDepartment(b, aiResult),
   ai_analysis |-> [issue_type |-> aiResult.issue_type,
                    assigned_authority |-> aiResult.assigned_authority,
                    error |-> aiResult.error,
                    is_manual |-> isManual(b)],
   status |-> REPORTED]

\* the row the issues table stores for an insert: the id is generated and
\* the columns the insert does not name are null
InsertedRow(id, data) ==
  [id |-> id,
   citizen_id |-> data.citizen_id,
   image_url |-> data.image_url,
   description |-> data.description,
   location_lat |-> data.location_lat,
   location_lng |-> data.location_lng,
   issue_type |-> Column(data.issue_type),
   assigned_authority |-> Column(data.assigned_authority),
   department |-> Column(data.department),
   ai_analysis |-> data.ai_analysis,
   status |-> data.status,
   resolved_image_url |-> Null,
   resolved_at |-> Null]

\* createIssue up to its first await
\* Mutation of createIssueStart: the classifier is called before the required
\* fields are checked, so a submission with a missing field is answered 400
\* only after the classifier call was made.
createIssueClassifiesFirst(r) ==
  LET b == r.reqBody
      called == [r EXCEPT !.calls = Append(@, "classifyIssue")]
  IN
  IF ~Truthy(b.image_url)
    THEN Respond(called, 400, ErrorBody("Missing field: image_url"))
  ELSE IF ~Truthy(b.description)
    THEN Respond(called, 400, ErrorBody("Missing field: description"))
  ELSE IF b.location_lat \in {Undef, Null}
    THEN Respond(called, 400, ErrorBody("Missing field: location_lat"))
  ELSE IF b.location_lng \in {Undef, Null}
    THEN Respond(called, 400, ErrorBody("Missing field: location_lng"))
  ELSE IF r.user = Null
    THEN Respond(r, 401, ErrorBody("User session invalid"))
  ELSE Await(r, "classifyIssue")

createIssueStart(r) ==
  LET b == r.reqBody IN
  IF ~Truthy(b.image_url)
    THEN Respond(r, 400, ErrorBody("Missing field: image_url"))
  ELSE IF ~Truthy(b.description)
    THEN Respond(r, 400, ErrorBody("Missing field: description"))
  ELSE IF b.location_lat \in {Undef, Null}
    THEN Respond(r, 400, ErrorBody("Missing field: location_lat"))
  ELSE IF b.location_lng \in {Undef, Null}
    THEN Respond(r, 400, ErrorBody("Missing field: location_lng"))
  ELSE IF r.user = Null
    THEN Respond(r, 401, ErrorBody("User session invalid"))
  ELSE Await(r, "classifyIssue")


\* Mutation of createIssueClassified: a manual department bypasses the
\* rejection of a submission the classifier found not to be a civic issue.
createIssueManualBypass(r, o) ==
  LET aiResult == classifyIssue(o)
      r1 == [r EXCEPT !.locals = [outcome |-> o, aiResult |-> aiResult, issueData |-> Null]]
  IN IF Truthy(aiResult.error) /\ ~Truthy(r.reqBody.manual_department)
     THEN Respond(r1, 400,
                  DetailBody("Submission not related to civic issues", aiResult.error))
     ELSE Await([r1 EXCEPT !.locals.issueData = issueData(r.user.id, r.reqBody, aiResult)],
                "issues.insert")

\* createIssue from the classifier's result to the insert
createIssueClassified(r, o) ==
  LET aiResult == classifyIssue(o)
      r1 == [r EXCEPT !.locals = [outcome |-> o, aiResult |-> aiResult, issueData |-> Null]]
  IN IF Truthy(aiResult.error)
     THEN Respond(r1, 400,
                  DetailBody("Submission not related to civic issues", aiResult.error))
     ELSE Await([r1 EXCEPT !.locals.issueData = issueData(r.user.id, r.reqBody, aiResult)],
                "issues.insert")

(***************************************************************************)
(* updateStatus, reassignIssue, deleteIssue, bulkDeleteIssues, the reads   *)
(***************************************************************************)
Array(a) == [t |-> "array", a |-> a]

\* new Date().toISOString(): the clock is not modelled, every reading is NOW
NOW == Str(<<"n","o","w">>)


\* Mutation of updateStatusStart: the status is not validated.
updateStatusUnvalidated(r) == Await(r, "issues.select.single")

\* updateStatus up to its first await
updateStatusStart(r) ==
  IF r.reqBody.status \notin ValidStatuses
  THEN Respond(r, 400, ErrorBody("Invalid status"))
  ELSE Await(r, "issues.select.single")


\* Mutation of updateData: resolved_at is stamped on every update to resolved,
\* with or without a resolved image.
updateDataStampsEveryResolve(b, now) ==
  [status |-> b.status,
   resolved_image_url |->
      IF b.status = RESOLVED /\ Truthy(b.resolved_image_url)
      THEN b.resolved_image_url ELSE Undef,
   resolved_at |-> IF b.status = RESOLVED THEN now ELSE Undef]

\* the payload of the update: a key the code does not set is Undef
updateData(b, now) ==
  IF b.status = RESOLVED /\ Truthy(b.resolved_image_url)
  THEN [status |-> b.status, resolved_image_url |-> b.resolved_image_url,
        resolved_at |-> now]
  ELSE [status |-> b.status, resolved_image_url |-> Undef, resolved_at |-> Undef]

\* the row after .update(payload): only the payload's keys are written
UpdatedRow(row, payload) ==
  [row EXCEPT
     !.status = payload.status,
     !.resolved_image_url =
        IF payload.resolved_image_url = Undef THEN @ ELSE payload.resolved_image_url,
     !.resolved_at = IF payload.resolved_at = Undef THEN @ ELSE payload.resolved_at]


\* Mutation of logData: old_status is taken from the request, not from the
\* row read before the update.
logDataOldFromRequest(r) ==
  [issue_id |-> r.params.id,
   old_status |-> IF r.reqBody.status = REPORTED THEN IN_PROGRESS ELSE REPORTED,
   new_status |-> r.reqBody.status,
   changed_by |-> r.user.id,
   resolved_image_url |-> Null]

logData(r) ==
  [issue_id |-> r.params.id,
   old_status |-> r.locals.oldIssue.status,
   new_status |-> r.reqBody.status,
   changed_by |-> r.user.id,
   resolved_image_url |->
      IF r.reqBody.status = RESOLVED /\ Truthy(r.reqBody.resolved_image_url)
      THEN r.reqBody.resolved_image_url ELSE Null]


\* Mutation of ReassignedRow: only assigned_authority is written.
ReassignedOneColumn(row, assigned_authority) ==
  IF assigned_authority = Undef THEN row
  ELSE [row EXCEPT !.assigned_authority = assigned_authority]

\* the row after reassignIssue's update: both columns get the same value
ReassignedRow(row, assigned_authority) ==
  IF assigned_authority = Undef THEN row
  ELSE [row EXCEPT !.assigned_authority = assigned_authority,
                   !.department = assigned_authority]

bulkDeleteIssuesStart(r) ==
  IF r.reqBody.issueIds.t # "array" \/ Len(r.reqBody.issueIds.a) = 0
  THEN Respond(r, 400, ErrorBody("Invalid or empty array of issue IDs provided"))
  ELSE Await(r, "issues.delete.in")

\* a controller function up to its first await
handlerStart(r) ==
  CASE r.route = "createIssue" -> createIssueStart(r)
    [] r.route = "updateStatus" -> updateStatusStart(r)
    [] r.route = "reassignIssue" -> Await(r, "issues.update.single")
    [] r.route = "deleteIssue" -> Await(r, "issues.delete")
    [] r.route = "bulkDeleteIssues" -> bulkDeleteIssuesStart(r)
    [] OTHER -> Await(r, "issues.select")

(***************************************************************************)
(* authorize(allowedRoles): 403 unless the attached role is allowed, else  *)
(* next(), which runs the controller function up to its first await.       *)
(***************************************************************************)
authorize(r) ==
  IF r.user = Null \/ r.user.role \notin allowedRoles(r.route)
  THEN Respond(r, 403, DetailBody("Unauthorized", IF r.user = Null THEN Undef ELSE r.user.role))
  ELSE handlerStart(r)

(***************************************************************************)
(* The inputs a request carries: route parameters and JSON body.  They are *)
(* drawn when the controller function first reads them; no earlier code    *)
(* reads them.  rich selects the wider sets used for createIssue alone.    *)
(***************************************************************************)
IMAGE == Str(<<"i","m","g">>)
CLOSED == Str(<<"c","l","o","s","e","d">>)
BaseCreateBody ==
  [image_url |-> Str(<<"u","r","l">>), description |-> Str(<<"h","o","l","e">>),
   location_lat |-> Num(0), location_lng |-> Num(1),
   manual_department |-> Undef, manual_issue_type |-> Undef,
   is_manual_submission |-> Undef]

CreateBodies(rich) ==
  IF rich
  THEN {[BaseCreateBody EXCEPT !.image_url = Undef],
        [BaseCreateBody EXCEPT !.description = Str(<<>>)],
        [BaseCreateBody EXCEPT !.location_lat = Null],
        [BaseCreateBody EXCEPT !.location_lng = Undef]}
       \cup
       {[BaseCreateBody EXCEPT !.manual_department = md, !.manual_issue_type = mt,
                               !.is_manual_submission = f] :
          md \in {Undef, Str(<<>>), Str(<<" ", " ">>), DRAINAGE},
          mt \in {Undef, Str(<<" ">>), GARBAGE},
          f \in {Undef, Bool(TRUE), Str(<<"t","r","u","e">>)}}
  ELSE {BaseCreateBody,
        [BaseCreateBody EXCEPT !.image_url = Undef],
        [BaseCreateBody EXCEPT !.manual_department = DRAINAGE]}

RequestInputs(route, rich) ==
  CASE route = "createIssue" ->
         {[params |-> Null, body |-> b] : b \in CreateBodies(rich)}
    [] route = "updateStatus" ->
         {[params |-> [id |-> i], body |-> [status |-> st, resolved_image_url |-> img]] :
            i \in IssueIds, st \in ValidStatuses \cup {CLOSED}, img \in {Undef, IMAGE}}
    [] route = "reassignIssue" ->
         {[params |-> [id |-> i], body |-> [assigned_authority |-> a]] :
            i \in IssueIds, a \in {ROAD, Undef}}
    [] route \in {"deleteIssue", "getIssueById"} ->
         {[params |-> [id |-> i], body |-> Null] : i \in IssueIds}
    [] route = "bulkDeleteIssues" ->
         {[params |-> Null, body |-> [issueIds |-> l]] :
            l \in {Undef, Array(<<>>), Array(<<1>>), Array([i \in IssueIds |-> i])}}
    [] OTHER -> {[params |-> Null, body |-> Null]}

WithInputs(r, in) == [r EXCEPT !.params = in.params, !.reqBody = in.body]

(***************************************************************************)
(* authenticate                                                            *)
(***************************************************************************)
\* the branch "if (profile && profile.role)"
useProfile(profile) == profile # Null /\ Truthy(profile.role)

finalRole(profile, metadata) ==
  IF useProfile(profile) THEN normalizeRole(profile.role)
  ELSE normalizeRole(metadata.role)

userDepartment(profile, metadata) ==
  IF useProfile(profile) THEN profile.department
  ELSE OrElse(metadata.department, Null)

\* "Sync metadata if it's different or missing"
needsSync(profile, metadata) ==
  \/ metadata.role # finalRole(profile, metadata)
  \/ metadata.department # userDepartment(profile, metadata)

\* the detached updateUserById call: dispatched, never awaited
Dispatched(user, role, department) ==
  [st |-> "pending", user |-> user, role |-> role, department |-> department]

\* where authenticate goes once the profile is known: to next() (authorize is
\* the next middleware of every guarded route) with req.user attached
authenticated(r, profile, in) ==
  LET u == r.locals.user
      md == u.user_metadata
      attached == [id |-> u.id, role |-> finalRole(profile, md),
                   department |-> userDepartment(profile, md)]
      r1 == [r EXCEPT !.user = attached, !.locals = Null,
                      !.calls = IF needsSync(profile, md)
                                THEN Append(@, "updateUserById") ELSE @]
  IN authorize(WithInputs(r1, in))

(***************************************************************************)
(* Actions                                                                 *)
(***************************************************************************)
\* createIssue requests in flight that may still insert a row
PendingCreates ==
  Cardinality({s \in Slots : req[s].route = "createIssue" /\ req[s].pc # "done"})

\* A request arrives on a free connection (none yet, or the last one answered):
\* the router picks the route's chain.  A guarded route
\* starts with authenticate, which answers 401 without a header and else
\* awaits getUser; a public route starts with its controller function.
Receive(s, routes, rich, max) ==
  /\ req[s].pc \in {"idle", "done"}
  /\ started < max
  /\ \E route \in routes :
       /\ route = "createIssue" => nextId + PendingCreates <= MaxIssues
       /\ LET r == [Idle EXCEPT !.n = started + 1, !.route = route] IN
          IF route \in GuardedRoutes
          THEN \E header \in BOOLEAN :
                 req' = [req EXCEPT ![s] =
                           IF ~header
                           THEN Respond(r, 401, ErrorBody("No authorization header provided"))
                           ELSE Await(r, "getUser")]
          ELSE \E in \in RequestInputs(route, rich) :
                 req' = [req EXCEPT ![s] = handlerStart(WithInputs(r, in))]
  /\ started' = started + 1
  /\ metaWrite' = [n \in Serials |->
                     IF n = req[s].n /\ metaWrite[n].st # "pending"
                     THEN NoWrite ELSE metaWrite[n]]
  /\ UNCHANGED <<issues, logs, userMeta, nextId>>

\* supabase.auth.getUser(token) resolves
GetUserResolves(s, users) ==
  /\ req[s].pc = "getUser"
  /\ \E o \in Outcomes, u \in users :
       LET r == Settled(req[s], o) IN
       req' = [req EXCEPT ![s] =
                 CASE o = "throws" -> Respond(r, 500, ErrorBody("Authentication failed"))
                   [] o = "error" -> Respond(r, 401, ErrorBody("Invalid or expired token"))
                   [] OTHER ->
                        Await([r EXCEPT !.locals =
                                 [user |-> [id |-> u, user_metadata |-> userMeta[u]]]],
                              "profiles.select")]
  /\ UNCHANGED <<issues, logs, userMeta, metaWrite, started, nextId>>

\* the profiles query resolves; the rest of authenticate, authorize and the
\* controller function up to its first await run in the same turn
ProfileResolves(s, rich) ==
  /\ req[s].pc = "profiles.select"
  /\ LET a == req[s]
         u == a.locals.user
     IN \E o \in Outcomes : LET r == Settled(a, o) IN
          IF o = "throws"
          THEN /\ req' = [req EXCEPT ![s] = Respond(r, 500, ErrorBody("Authentication failed"))]
               /\ UNCHANGED metaWrite
          ELSE LET profile == IF o = "ok" THEN Profiles[u.id] ELSE Null
                   md == u.user_metadata
               IN IF finalRole(profile, md).t = "throws"
                  THEN /\ req' = [req EXCEPT ![s] =
                                    Respond(r, 500, ErrorBody("Authentication failed"))]
                       /\ UNCHANGED metaWrite
                  ELSE /\ \E in \in RequestInputs(r.route, rich) :
                            req' = [req EXCEPT ![s] = authenticated(r, profile, in)]
                       /\ metaWrite' =
                            IF needsSync(profile, md)
                            THEN [metaWrite EXCEPT ![r.n] =
                                    Dispatched(u.id, finalRole(profile, md),
                                               userDepartment(profile, md))]
                            ELSE metaWrite
  /\ UNCHANGED <<issues, logs, userMeta, started, nextId>>


\* Mutation of MetaWriteResolves: the write is awaited, so its failure reaches
\* the request as a 500.
MetaWriteSurfaces(n) ==
  /\ metaWrite[n].st = "pending"
  /\ LET w == metaWrite[n]
         live == \E s \in Slots : req[s].n = n
     IN \E o \in {"ok", "failed"} :
          /\ metaWrite' = [metaWrite EXCEPT ![n] = IF live THEN [st |-> o] ELSE NoWrite]
          /\ userMeta' = IF o = "ok"
                         THEN [userMeta EXCEPT ![w.user] =
                                 [role |-> w.role, department |-> w.department]]
                         ELSE userMeta
          /\ req' = [s \in Slots |->
                       IF req[s].n = n /\ o = "failed"
                       THEN Respond(req[s], 500, ErrorBody("Authentication failed"))
                       ELSE req[s]]
  /\ UNCHANGED <<issues, logs, started, nextId>>

\* the detached updateUserById call settles: its rejection is caught by
\* .catch(() => {}), its result is discarded
MetaWriteResolves(n) ==
  /\ metaWrite[n].st = "pending"
  /\ LET w == metaWrite[n]
         live == \E s \in Slots : req[s].n = n
     IN \E o \in {"ok", "failed"} :
          /\ metaWrite' = [metaWrite EXCEPT ![n] = IF live THEN [st |-> o] ELSE NoWrite]
          /\ userMeta' = IF o = "ok"
                         THEN [userMeta EXCEPT ![w.user] =
                                 [role |-> w.role, department |-> w.department]]
                         ELSE userMeta
  /\ UNCHANGED <<req, issues, logs, started, nextId>>

\* classifyIssue returns (it never throws); createIssue goes on to the insert
ClassifyResolves(s, outcomes) ==
  /\ req[s].pc = "classifyIssue"
  /\ \E o \in outcomes :
       req' = [req EXCEPT ![s] = createIssueClassified(@, o)]
  /\ UNCHANGED <<issues, logs, userMeta, metaWrite, started, nextId>>

\* the insert into issues resolves
InsertResolves(s) ==
  /\ req[s].pc = "issues.insert"
  /\ LET a == req[s]
         row == InsertedRow(nextId, a.locals.issueData)
     IN \E o \in Outcomes : LET r == Settled(a, o) IN
          CASE o = "ok" ->
                 /\ issues' = [issues EXCEPT ![nextId] = row]
                 /\ nextId' = nextId + 1
                 /\ req' = [req EXCEPT ![s] = Respond(r, 201, RowBody(row))]
            [] o = "error" ->
                 /\ req' = [req EXCEPT ![s] = Respond(r, 400, ErrorBody("Database insert failed"))]
                 /\ UNCHANGED <<issues, nextId>>
            [] OTHER ->
                 /\ req' = [req EXCEPT ![s] = Respond(r, 500, ErrorBody("Failed to report issue"))]
                 /\ UNCHANGED <<issues, nextId>>
  /\ UNCHANGED <<logs, userMeta, metaWrite, started>>

\* updateStatus step 1: the read of the old row resolves
OldIssueResolves(s) ==
  /\ req[s].pc = "issues.select.single"
  /\ LET a == req[s]
         oldIssue == issues[a.params.id]
     IN \E o \in Outcomes : LET r == Settled(a, o) IN
          req' = [req EXCEPT ![s] =
                    CASE o = "throws" -> Respond(r, 500, ErrorBody("Failed to update status"))
                      [] o = "error" \/ oldIssue = Null ->
                           Respond(r, 404, ErrorBody("Issue not found"))
                      [] OTHER ->
                           Await([r EXCEPT !.locals =
                                    [oldIssue |-> oldIssue,
                                     updateData |-> updateData(r.reqBody, NOW),
                                     statusBefore |-> Null,
                                     finalResult |-> Null, logOutcome |-> "none"]],
                                 "issues.update")]
  /\ UNCHANGED <<issues, logs, userMeta, metaWrite, started, nextId>>

\* updateStatus step 2: the update resolves
UpdateResolves(s) ==
  /\ req[s].pc = "issues.update"
  /\ LET a == req[s]
         id == a.params.id
         row == issues[id]
     IN \E o \in Outcomes : LET r == Settled(a, o) IN
          CASE o = "throws" ->
                 /\ req' = [req EXCEPT ![s] =
                              Respond(r, 500, ErrorBody("Failed to update status"))]
                 /\ UNCHANGED issues
            [] o = "error" ->
                 /\ req' = [req EXCEPT ![s] =
                              Respond(r, 500, ErrorBody("Database update failed"))]
                 /\ UNCHANGED issues
            [] OTHER ->
                 IF row = Null
                 THEN /\ req' = [req EXCEPT ![s] =
                                   Respond(r, 404, ErrorBody("Issue not found"))]
                      /\ UNCHANGED issues
                 ELSE LET updated == UpdatedRow(row, r.locals.updateData) IN
                      /\ issues' = [issues EXCEPT ![id] = updated]
                      /\ req' = [req EXCEPT ![s] =
                                   Await([r EXCEPT !.locals.finalResult = updated,
                                                   !.locals.statusBefore = row.status],
                                         "issue_logs.insert")]
  /\ UNCHANGED <<logs, userMeta, metaWrite, started, nextId>>


\* Mutation of LogInsertResolves: a failed log insert fails the request.
LogInsertSurfaces(s) ==
  /\ req[s].pc = "issue_logs.insert"
  /\ LET r == req[s] IN
     \E o \in Outcomes :
       /\ logs' = IF o = "ok" THEN Append(logs, logData(r)) ELSE logs
       /\ req' = [req EXCEPT ![s] =
                    IF o = "ok"
                    THEN Respond([r EXCEPT !.locals.logOutcome = o],
                                 200, RowBody(r.locals.finalResult))
                    ELSE Respond([r EXCEPT !.locals.logOutcome = o],
                                 500, ErrorBody("Failed to update status"))]
  /\ UNCHANGED <<issues, userMeta, metaWrite, started, nextId>>

\* updateStatus step 3: the insert into issue_logs resolves; a returned
\* error is never read and an exception is caught and dropped
LogInsertResolves(s) ==
  /\ req[s].pc = "issue_logs.insert"
  /\ LET r == req[s] IN
     \E o \in Outcomes :
       /\ logs' = IF o = "ok" THEN Append(logs, logData(r)) ELSE logs
       /\ req' = [req EXCEPT ![s] =
                    Respond([r EXCEPT !.locals.logOutcome = o],
                            200, RowBody(r.locals.finalResult))]
  /\ UNCHANGED <<issues, userMeta, metaWrite, started, nextId>>

\* reassignIssue's update resolves; .single() makes "no row" an error
ReassignResolves(s) ==
  /\ req[s].pc = "issues.update.single"
  /\ LET a == req[s]
         id == a.params.id
         row == issues[id]
     IN \E o \in Outcomes : LET r == Settled(a, o) IN
          IF o = "ok" /\ row # Null
          THEN LET updated == ReassignedRow(row, r.reqBody.assigned_authority) IN
               /\ issues' = [issues EXCEPT ![id] = updated]
               /\ req' = [req EXCEPT ![s] = Respond(r, 200, RowBody(updated))]
          ELSE /\ req' = [req EXCEPT ![s] =
                            Respond(r, 500, ErrorBody("Failed to reassign issue"))]
               /\ UNCHANGED issues
  /\ UNCHANGED <<logs, userMeta, metaWrite, started, nextId>>

\* deleteIssue's delete resolves
DeleteResolves(s) ==
  /\ req[s].pc = "issues.delete"
  /\ LET a == req[s] IN
     \E o \in Outcomes : LET r == Settled(a, o) IN
       CASE o = "ok" ->
              /\ issues' = [issues EXCEPT ![r.params.id] = Null]
              /\ req' = [req EXCEPT ![s] = Respond(r, 204, NoBody)]
         [] o = "error" ->
              /\ req' = [req EXCEPT ![s] = Respond(r, 500, ErrorBody("Database error"))]
              /\ UNCHANGED issues
         [] OTHER ->
              /\ req' = [req EXCEPT ![s] = Respond(r, 500, ErrorBody("Failed to delete issue"))]
              /\ UNCHANGED issues
  /\ UNCHANGED <<logs, userMeta, metaWrite, started, nextId>>

\* bulkDeleteIssues' delete resolves
BulkDeleteResolves(s) ==
  /\ req[s].pc = "issues.delete.in"
  /\ LET a == req[s]
         ids == {a.reqBody.issueIds.a[k] : k \in 1..Len(a.reqBody.issueIds.a)}
     IN \E o \in Outcomes : LET r == Settled(a, o) IN
          CASE o = "ok" ->
                 /\ issues' = [i \in IssueIds |-> IF i \in ids THEN Null ELSE issues[i]]
                 /\ req' = [req EXCEPT ![s] = Respond(r, 204, NoBody)]
            [] o = "error" ->
                 /\ req' = [req EXCEPT ![s] = Respond(r, 500, ErrorBody("Database error"))]
                 /\ UNCHANGED issues
            [] OTHER ->
                 /\ req' = [req EXCEPT ![s] =
                              Respond(r, 500, ErrorBody("Failed to bulk delete issues"))]
                 /\ UNCHANGED issues
  /\ UNCHANGED <<logs, userMeta, metaWrite, started, nextId>>

\* the rows a read route selects
Selected(r) ==
  LET stored == {issues[i] : i \in {j \in IssueIds : issues[j] # Null}} IN
  CASE r.route = "getMyIssues" -> {row \in stored : row.citizen_id = r.user.id}
    [] r.route = "getIssueById" -> {row \in stored : row.id = r.params.id}
    [] OTHER -> stored

\* the select of getMyIssues, getAuthorityIssues, getAllIssues or
\* getIssueById resolves (the order and the limit of a listing are not modelled)
SelectResolves(s) ==
  /\ req[s].pc = "issues.select"
  /\ LET a == req[s] IN
     \E o \in Outcomes : LET r == Settled(a, o) IN
       req' = [req EXCEPT ![s] =
                 IF o # "ok" THEN Respond(r, 500, ErrorBody("Failed to fetch issues"))
                 ELSE IF r.route = "getIssueById" /\ Selected(r) = {}
                      THEN Respond(r, 404, ErrorBody("Issue not found"))
                      ELSE Respond(r, 200, ListBody(Selected(r)))]
  /\ UNCHANGED <<issues, logs, userMeta, metaWrite, started, nextId>>

(***************************************************************************)
(* Specifications                                                          *)
(***************************************************************************)
\* the classifier outcomes of the whole-system specifications
BasicOutcomes ==
  {FetchThrows, Reply(AiObject(POTHOLE, ROAD, Undef)),
   Reply(AiObject(Undef, Undef, NOT_CIVIC_ERROR))}

\* every classifier outcome
AllOutcomes == ClassifierFailures \cup {Reply(obj) : obj \in ReplyObjects}

\* user_metadata once authenticate's write-back has gone through for everyone
SyncedMetadata ==
  [u \in UserIds |->
     CASE u = "u_cit" -> [role |-> CITIZEN, department |-> Null]
       [] u = "u_adm" -> [role |-> HEAD_AUTHORITY, department |-> ROAD]
       [] OTHER -> [role |-> HEAD_AUTHORITY, department |-> Null]]

InitSynced ==
  /\ req = [s \in Slots |-> Idle]
  /\ issues = [i \in IssueIds |-> Null]
  /\ logs = <<>>
  /\ userMeta = SyncedMetadata
  /\ metaWrite = [n \in Serials |-> NoWrite]
  /\ started = 0
  /\ nextId = 1

\* the steps of the request on connection s, over all routes
Handle(s, users, max) ==
  \/ Receive(s, Routes, FALSE, max)
  \/ GetUserResolves(s, users)
  \/ ProfileResolves(s, FALSE)
  \/ ClassifyResolves(s, BasicOutcomes)
  \/ InsertResolves(s)
  \/ OldIssueResolves(s)
  \/ UpdateResolves(s)
  \/ LogInsertResolves(s)
  \/ ReassignResolves(s)
  \/ DeleteResolves(s)
  \/ BulkDeleteResolves(s)
  \/ SelectResolves(s)

\* The whole system: MaxRequests requests on two connections, their steps
\* interleaved, the identity provider's metadata already in sync.
Next == \E s \in Slots : Handle(s, {"u_cit", "u_adm"}, MaxRequests)

Spec == InitSynced /\ [][Next]_vars

\* The whole system, MaxSerial requests one after the other on one connection.
NextSerial == Handle("s1", {"u_cit", "u_adm"}, MaxSerial)

SpecSerial == InitSynced /\ [][NextSerial]_vars

\* createIssue alone, over the wide sets of bodies and classifier outcomes:
\* MaxCreates requests one after the other, the table holding a row that an
\* earlier createIssue stored
StoredBefore ==
  InsertedRow(1, issueData("u_cit", BaseCreateBody, AiObject(POTHOLE, ROAD, Undef)))

InitCreate ==
  /\ req = [s \in Slots |-> Idle]
  /\ issues = [i \in IssueIds |-> IF i = 1 THEN StoredBefore ELSE Null]
  /\ logs = <<>>
  /\ userMeta = SyncedMetadata
  /\ metaWrite = [n \in Serials |-> NoWrite]
  /\ started = 0
  /\ nextId = 2

NextCreate ==
  \/ Receive("s1", {"createIssue"}, TRUE, MaxCreates)
  \/ GetUserResolves("s1", {"u_cit", "u_adm"})
  \/ ProfileResolves("s1", TRUE)
  \/ ClassifyResolves("s1", AllOutcomes)
  \/ InsertResolves("s1")

SpecCreate == InitCreate /\ [][NextCreate]_vars

\* authenticate with the metadata write-back, in front of the routes that
\* read or delete
NextAuth ==
  \/ \E s \in Slots :
       \/ Receive(s, {"getMyIssues", "getAuthorityIssues", "deleteIssue", "getAllIssues"},
                  FALSE, MaxRequests)
       \/ GetUserResolves(s, UserIds)
       \/ ProfileResolves(s, FALSE)
       \/ DeleteResolves(s)
       \/ SelectResolves(s)
  \/ \E n \in Serials : MetaWriteResolves(n)

SpecAuth == Init /\ [][NextAuth]_vars

\* updateStatus and deleteIssue requests of a head authority on two
\* connections, their steps interleaved, the table holding a row that an
\* earlier createIssue stored
NextRace ==
  \E s \in Slots :
    \/ Receive(s, {"updateStatus", "deleteIssue"}, FALSE, MaxRequests)
    \/ GetUserResolves(s, {"u_adm"})
    \/ ProfileResolves(s, FALSE)
    \/ OldIssueResolves(s)
    \/ UpdateResolves(s)
    \/ LogInsertResolves(s)
    \/ DeleteResolves(s)

SpecRace == InitCreate /\ [][NextRace]_vars

(***************************************************************************)
(* Properties                                                              *)
(***************************************************************************)
\* the request on connection s takes this step
Steps(s) == req'[s] # req[s]

\* the allowed-role set the HTTP surface gives each guarded route
SurfaceRoles(route) ==
  IF route \in {"createIssue", "getMyIssues"} THEN {CITIZEN} ELSE {HEAD_AUTHORITY}

\* C1: a stored issue is changed or removed only by a step of a request whose
\* normalized role is head_authority and a row is added only by a step of a
\* request whose normalized role is citizen; an authenticated request to a
\* guarded route whose role is outside the route's set is answered 403, and
\* the step that answers 403 changes neither the issues nor the log.
C1_RoleGuardsEveryWrite ==
  /\ [](\A s \in Slots :
          (req[s].route \in GuardedRoutes /\ req[s].user # Null
             /\ req[s].user.role \notin SurfaceRoles(req[s].route))
          => (req[s].pc = "done" /\ req[s].resStatus = 403))
  /\ [][/\ \A i \in IssueIds :
             issues'[i] # issues[i] =>
               \E s \in Slots :
                 /\ Steps(s)
                 /\ req[s].user # Null
                 /\ IF issues[i] = Null
                    THEN req[s].route = "createIssue" /\ req[s].user.role = CITIZEN
                    ELSE /\ req[s].route \in {"updateStatus", "reassignIssue",
                                              "deleteIssue", "bulkDeleteIssues"}
                         /\ req[s].user.role = HEAD_AUTHORITY
        /\ \A s \in Slots :
             (Steps(s) /\ req'[s].resStatus = 403) => (issues' = issues /\ logs' = logs)
       ]_vars

\* C1 witness: a citizen's deleteIssue request was answered 403 and the row it
\* named is still stored
C1_Witness ==
  \E s \in Slots :
    /\ req[s].route = "deleteIssue" /\ req[s].resStatus = 403
    /\ req[s].user.role = CITIZEN
    /\ issues[req[s].params.id] # Null

\* the step in which updateStatus on connection s sends its success response
AnswersUpdate(s) ==
  /\ Steps(s)
  /\ req[s].pc = "issue_logs.insert"
  /\ req'[s].pc = "done" /\ req'[s].resStatus = 200

\* the log entry of the update of request r: issue, old and new status, user
EntryOf(r, e) ==
  /\ e.issue_id = r.params.id
  /\ e.old_status = r.locals.oldIssue.status
  /\ e.new_status = r.reqBody.status
  /\ e.changed_by = r.user.id

LogInserts(r) == Cardinality({k \in 1..Len(r.calls) : r.calls[k] = "issue_logs.insert"})

\* C2 as stated: every updateStatus request that sends its success response
\* has, in that step, appended exactly one log entry for its update, also
\* when the log write fails.
C2_AlwaysOneEntry ==
  [][\A s \in Slots :
       AnswersUpdate(s) =>
         /\ Len(logs') = Len(logs) + 1
         /\ EntryOf(req[s], logs'[Len(logs')])]_vars

\* C2 amended: every updateStatus request that sends its success response has
\* attempted exactly one log insert for its update; when the insert succeeds,
\* exactly one entry (issue, old status, new status, user) is appended, and
\* when it fails none is and the success response is sent all the same.
C2_OneAttemptEntryIffWritten ==
  [][\A s \in Slots :
       AnswersUpdate(s) =>
         /\ LogInserts(req'[s]) = 1
         /\ IF req'[s].locals.logOutcome = "ok"
            THEN /\ Len(logs') = Len(logs) + 1
                 /\ SubSeq(logs', 1, Len(logs)) = logs
                 /\ EntryOf(req[s], logs'[Len(logs')])
            ELSE logs' = logs]_vars

\* C2 witness: an updateStatus request answered 200 whose entry is the last
\* of the log
C2_Witness ==
  \E s \in Slots :
    /\ req[s].route = "updateStatus" /\ req[s].resStatus = 200
    /\ req[s].locals.logOutcome = "ok"
    /\ Len(logs) > 0 /\ EntryOf(req[s], logs[Len(logs)])

\* C3: when the insert into issue_logs fails, by a returned error or by an
\* exception, updateStatus answers 200 with the updated row, which carries
\* the new status, and the step leaves the stored issues as the update wrote
\* them; a request that awaits the log insert has already had its update
\* persisted.
C3_LogFailureSwallowed ==
  /\ [](\A s \in Slots :
          req[s].pc = "issue_logs.insert" =>
            req[s].locals.finalResult.status = req[s].reqBody.status)
  /\ [][\A s \in Slots :
          (/\ Steps(s)
           /\ req[s].pc = "issue_logs.insert"
           /\ req'[s].locals.logOutcome \in {"error", "throws"})
          => /\ req'[s].pc = "done"
             /\ req'[s].resStatus = 200
             /\ req'[s].resBody = RowBody(req[s].locals.finalResult)
             /\ issues' = issues]_vars

\* C3 witness: the log insert threw and the request was answered 200 with a
\* row of the requested status
C3_Witness ==
  \E s \in Slots :
    /\ req[s].route = "updateStatus" /\ req[s].resStatus = 200
    /\ req[s].locals.logOutcome = "throws"
    /\ req[s].resBody.row.status = req[s].reqBody.status

\* the stored rows
Stored == {i \in IssueIds : issues[i] # Null}

\* the resolved image and the resolved timestamp of every stored row are set
\* together
ResolvedTogether ==
  \A i \in Stored : (issues[i].resolved_image_url # Null) <=> (issues[i].resolved_at # Null)

\* a step that writes the resolved image or timestamp of a row that stays
\* stored is a step of updateStatus to resolved with a resolved image, and a
\* new row has neither
ResolvedWrittenOnlyByResolve ==
  \A i \in IssueIds :
    /\ (issues[i] = Null /\ issues'[i] # Null) =>
         (issues'[i].resolved_image_url = Null /\ issues'[i].resolved_at = Null)
    /\ (/\ issues[i] # Null /\ issues'[i] # Null
        /\ \/ issues'[i].resolved_image_url # issues[i].resolved_image_url
           \/ issues'[i].resolved_at # issues[i].resolved_at)
       => \E s \in Slots :
            /\ Steps(s) /\ req[s].pc = "issues.update" /\ req[s].params.id = i
            /\ req[s].reqBody.status = RESOLVED
            /\ Truthy(req[s].reqBody.resolved_image_url)
            /\ issues'[i].resolved_image_url = req[s].reqBody.resolved_image_url
            /\ issues'[i].resolved_at # Null

\* the step in which updateStatus to resolved, without a resolved image,
\* writes row i
ResolvesWithoutImage(s, i) ==
  /\ Steps(s) /\ req[s].pc = "issues.update" /\ req[s].params.id = i
  /\ req[s].reqBody.status = RESOLVED
  /\ ~Truthy(req[s].reqBody.resolved_image_url)
  /\ req'[s].pc = "issue_logs.insert"

\* C4 as stated: the resolved image is set exactly when the resolved timestamp
\* is, both are written only by updateStatus to resolved with an image, and an
\* update to resolved without an image leaves resolved_at unset.
C4_ResolveWithoutImageUnset ==
  /\ []ResolvedTogether
  /\ [][/\ ResolvedWrittenOnlyByResolve
        /\ \A s \in Slots, i \in IssueIds :
             ResolvesWithoutImage(s, i) => issues'[i].resolved_at = Null]_vars

\* C4 amended: the resolved image is set exactly when the resolved timestamp
\* is, both are written only by updateStatus to resolved with an image, and an
\* update to resolved without an image leaves both as they were: unset
\* unless an earlier update to resolved with an image set them.
C4_ResolvedSetTogether ==
  /\ []ResolvedTogether
  /\ [][/\ ResolvedWrittenOnlyByResolve
        /\ \A s \in Slots, i \in IssueIds :
             ResolvesWithoutImage(s, i) =>
               /\ issues'[i].status = RESOLVED
               /\ issues'[i].resolved_at = issues[i].resolved_at
               /\ issues'[i].resolved_image_url = issues[i].resolved_image_url
               /\ issues[i].resolved_at = Null => issues'[i].resolved_at = Null]_vars

\* C4 witness: a row resolved with an image was then updated to resolved
\* without one, and holds both the image and the timestamp
C4_Witness ==
  \E s \in Slots :
    /\ req[s].route = "updateStatus" /\ req[s].resStatus = 200
    /\ req[s].reqBody.status = RESOLVED
    /\ ~Truthy(req[s].reqBody.resolved_image_url)
    /\ issues[req[s].params.id] # Null
    /\ issues[req[s].params.id].resolved_at # Null
    /\ issues[req[s].params.id].resolved_image_url = IMAGE

\* C5: every stored row has assigned_authority equal to department; a new row
\* gets the same value in both, and the two columns of a row that stays
\* stored are written only by a step of reassignIssue, which gives both the
\* value the request supplies.
C5_DepartmentMirrored ==
  /\ [](\A i \in Stored : issues[i].assigned_authority = issues[i].department)
  /\ [][\A i \in IssueIds :
          (/\ issues[i] # Null /\ issues'[i] # Null
           /\ \/ issues'[i].department # issues[i].department
              \/ issues'[i].assigned_authority # issues[i].assigned_authority)
          => \E s \in Slots :
               /\ Steps(s) /\ req[s].pc = "issues.update.single"
               /\ req[s].params.id = i
               /\ issues'[i].department = req[s].reqBody.assigned_authority
               /\ issues'[i].assigned_authority = req[s].reqBody.assigned_authority]_vars

\* C5 witness: a row stored for the manual department drainage was reassigned
\* to road
C5_Witness ==
  \E s \in Slots :
    /\ req[s].route = "reassignIssue" /\ req[s].resStatus = 200
    /\ req[s].reqBody.assigned_authority = ROAD
    /\ issues[req[s].params.id] # Null
    /\ issues[req[s].params.id].ai_analysis.is_manual
    /\ issues[req[s].params.id].department = ROAD
    /\ issues[req[s].params.id].assigned_authority = ROAD

\* the three statuses of the issue lifecycle
LifecycleStatuses == {REPORTED, IN_PROGRESS, RESOLVED}

\* an updateStatus request that authorize has let through to the controller
\* function, r being its record
ReachesUpdateStatus(r) ==
  /\ r.route = "updateStatus" /\ r.reqBody # Null
  /\ r.user # Null /\ r.user.role = HEAD_AUTHORITY

\* C6: every stored row's status is reported, in_progress or resolved; a new
\* row has status reported; an updateStatus request with any other status
\* that authorize lets through is answered 400, by a step that leaves the
\* issues and the log unchanged, and never calls the data store.
C6_StatusInLifecycle ==
  /\ [](\A i \in Stored : issues[i].status \in LifecycleStatuses)
  /\ [](\A s \in Slots :
          (/\ ReachesUpdateStatus(req[s])
           /\ req[s].reqBody.status \notin LifecycleStatuses)
          => /\ req[s].pc = "done" /\ req[s].resStatus = 400
             /\ \A k \in 1..Len(req[s].calls) :
                  req[s].calls[k] \in {"getUser", "profiles.select", "updateUserById"})
  /\ [][/\ \A i \in IssueIds :
             (issues[i] = Null /\ issues'[i] # Null) => issues'[i].status = REPORTED
        /\ \A s \in Slots :
             (/\ Steps(s) /\ ReachesUpdateStatus(req'[s])
              /\ req'[s].reqBody.status \notin LifecycleStatuses)
             => (issues' = issues /\ logs' = logs)]_vars

\* C6 witness: an updateStatus request for status "closed" on a stored row
\* was answered 400
C6_Witness ==
  \E s \in Slots :
    /\ req[s].route = "updateStatus" /\ req[s].resStatus = 400
    /\ req[s].reqBody.status = CLOSED
    /\ issues[req[s].params.id] # Null
    /\ issues[req[s].params.id].status = REPORTED

\* the createIssue request on connection s has its classification
Classified(s) ==
  /\ req[s].route = "createIssue"
  /\ req[s].pc \in {"issues.insert", "done"}
  /\ req[s].locals # Null
  /\ "classifyIssue" \in {req[s].calls[k] : k \in 1..Len(req[s].calls)}

\* C7: when the classifier's result carries the "not a civic issue" error,
\* createIssue answers 400 with that error as the detail, never calls the
\* insert, and the step leaves the stored issues unchanged, whatever the
\* manual department, manual issue type and manual-submission flag.
C7_NotCivicRejected ==
  /\ [](\A s \in Slots :
          (Classified(s) /\ Truthy(req[s].locals.aiResult.error))
          => /\ req[s].pc = "done" /\ req[s].resStatus = 400
             /\ req[s].resBody.details = req[s].locals.aiResult.error
             /\ \A k \in 1..Len(req[s].calls) : req[s].calls[k] # "issues.insert")
  /\ [][\A s \in Slots :
          (/\ Steps(s) /\ req[s].pc = "classifyIssue"
           /\ Truthy(req'[s].locals.aiResult.error))
          => (issues' = issues /\ nextId' = nextId)]_vars

\* C7 witness: a request with a manual department, a manual issue type and
\* the manual-submission flag was rejected for the classifier's error
C7_Witness ==
  \E s \in Slots :
    /\ Classified(s)
    /\ req[s].locals.aiResult.error = NOT_CIVIC_ERROR
    /\ req[s].reqBody.manual_department = DRAINAGE
    /\ req[s].reqBody.manual_issue_type = GARBAGE
    /\ req[s].reqBody.is_manual_submission = Bool(TRUE)
    /\ req[s].resStatus = 400
    /\ issues[1] = StoredBefore /\ issues[2] = Null

\* a manual value is supplied when the body carries a non-empty one
Supplied(v) == v.t = "string" /\ Len(v.s) > 0

\* C8: for every createIssue request that persists a row, the stored
\* department and issue type are the manual values when supplied and the
\* classifier's otherwise, and ai_analysis.is_manual is true exactly when the
\* stored department or type came from a manual value or the
\* manual-submission flag was true.
C8_ManualFlagExact ==
  \A s \in Slots :
    (req[s].route = "createIssue" /\ req[s].resStatus = 201) =>
      LET b == req[s].reqBody
          ai == req[s].locals.aiResult
          row == req[s].resBody.row
      IN /\ row.department =
              IF Supplied(b.manual_department) THEN b.manual_department
              ELSE Column(ai.assigned_authority)
         /\ row.issue_type =
              IF Supplied(b.manual_issue_type) THEN b.manual_issue_type
              ELSE Column(ai.issue_type)
         /\ row.ai_analysis.is_manual <=>
              \/ Supplied(b.manual_department)
              \/ Supplied(b.manual_issue_type)
              \/ b.is_manual_submission = Bool(TRUE)

\* C9: whenever the image fetch, the model call or the parsing of the reply
\* fails, the classifier's result is exactly {issue_type: "other",
\* assigned_authority: "head"} with no error; createIssue then goes on to the
\* insert and is answered 201, or with the data store's own failure, never
\* with the classifier's; without a manual department or issue type the row
\* it persists has issue type other and department head.
C9_ClassifierFallback ==
  \A s \in Slots :
    (Classified(s) /\ req[s].locals.outcome \in {FetchThrows, ModelThrows, NoJsonBlock, BadJson})
    => /\ req[s].locals.aiResult =
            [issue_type |-> OTHER_TYPE, assigned_authority |-> HEAD_DEPT, error |-> Undef]
       /\ "issues.insert" \in {req[s].calls[k] : k \in 1..Len(req[s].calls)}
       /\ req[s].pc = "done" =>
            \/ /\ req[s].resStatus = 201
               /\ issues[req[s].resBody.row.id] = req[s].resBody.row
               /\ ~Truthy(req[s].reqBody.manual_department) =>
                    req[s].resBody.row.department = HEAD_DEPT
               /\ ~Truthy(req[s].reqBody.manual_issue_type) =>
                    req[s].resBody.row.issue_type = OTHER_TYPE
            \/ /\ req[s].resStatus \in {400, 500}
               /\ req[s].resBody \in {ErrorBody("Database insert failed"),
                                      ErrorBody("Failed to report issue")}

\* C9 witness: the reply could not be parsed, and the request without manual
\* values persisted a row of type other for department head
C9_Witness ==
  \E s \in Slots :
    /\ Classified(s)
    /\ req[s].locals.outcome = BadJson
    /\ req[s].reqBody.manual_department = Undef
    /\ req[s].reqBody.manual_issue_type = Undef
    /\ req[s].resStatus = 201
    /\ issues[2] # Null
    /\ issues[2].issue_type = OTHER_TYPE /\ issues[2].department = HEAD_DEPT

\* the updateUserById calls of request r
MetaWrites(r) == Cardinality({k \in 1..Len(r.calls) : r.calls[k] = "updateUserById"})

\* C10: the step of authenticate that dispatches the metadata write also
\* attaches the principal and hands the request on, so the request never
\* waits for the write; the principal stays as attached; the step in which
\* the write settles, with success or failure, changes no request, no issue
\* and no log entry; a request dispatches the write at most once and a
\* settled write is never dispatched again.
C10_WriteBackDetached ==
  /\ [](\A s \in Slots : MetaWrites(req[s]) <= 1)
  /\ [](\A s \in Slots :
          (req[s].n > 0 /\ metaWrite[req[s].n].st # "none") =>
            (req[s].user # Null /\ req[s].pc \notin {"getUser", "profiles.select"}))
  /\ [][/\ \A n \in Serials :
             /\ (metaWrite[n].st = "pending" /\ metaWrite'[n].st # "pending")
                  => (req' = req /\ issues' = issues /\ logs' = logs)
             /\ (metaWrite[n].st \in {"ok", "failed"}) => metaWrite'[n].st # "pending"
        /\ \A s \in Slots :
             (req[s].user # Null /\ req'[s].n = req[s].n) => req'[s].user = req[s].user
       ]_vars

\* C10 witness: a request was answered 200 while its metadata write was
\* still in flight
C10_Witness ==
  \E s \in Slots :
    /\ req[s].pc = "done" /\ req[s].resStatus = 200
    /\ MetaWrites(req[s]) = 1
    /\ metaWrite[req[s].n].st = "pending"

\* the bodies of the 400 responses that answer a validation failure
ValidationErrors ==
  {ErrorBody("Missing field: image_url"), ErrorBody("Missing field: description"),
   ErrorBody("Missing field: location_lat"), ErrorBody("Missing field: location_lng"),
   ErrorBody("Invalid status"),
   ErrorBody("Invalid or empty array of issue IDs provided")}

\* request r was rejected for a validation failure or for its role
Rejected(r) ==
  /\ r.pc = "done"
  /\ \/ r.resStatus = 403
     \/ r.resStatus = 400 /\ r.resBody \in ValidationErrors

\* the external calls authenticate makes in front of a guarded route
AuthenticateCalls == {"getUser", "profiles.select", "updateUserById"}

\* C11 as stated: a request rejected for a validation failure or for its role
\* has made no external call at all (identity provider, profile store,
\* classifier, data store).
C11_RejectedBeforeAnyCall ==
  \A s \in Slots : Rejected(req[s]) => req[s].calls = <<>>

\* C11 amended: a request rejected for a validation failure or for its role
\* has made no classifier call and no call on the issues or the log; on a
\* guarded route the calls of authenticate (getUser, then the profiles query)
\* are the only ones made for it, and on a public route none is.
C11_RejectedBeforeControllerCalls ==
  \A s \in Slots :
    Rejected(req[s]) =>
      /\ \A k \in 1..Len(req[s].calls) : req[s].calls[k] \in AuthenticateCalls
      /\ req[s].route \in GuardedRoutes =>
           /\ Len(req[s].calls) >= 2
           /\ req[s].calls[1] = "getUser" /\ req[s].calls[2] = "profiles.select"
      /\ req[s].route \notin GuardedRoutes => req[s].calls = <<>>

\* C11 witness: a head authority's updateStatus with a status outside the
\* list was answered 400 after authenticate's two calls and no other
C11_Witness ==
  \E s \in Slots :
    /\ req[s].route = "updateStatus" /\ req[s].resStatus = 400
    /\ req[s].resBody = ErrorBody("Invalid status")
    /\ req[s].calls = <<"getUser", "profiles.select">>

\* C12: apart from the classifier, the log insert and the metadata write-back,
\* a request one of whose awaited external calls (getUser, the profiles
\* query, a read or write of issues) returned an error or threw has been
\* answered with an error status, and the failed call is the last call it
\* made: it went on to no later step and sent no success response.
C12_FailureEndsRequest ==
  \A s \in Slots :
    req[s].failed # {} =>
      /\ req[s].pc = "done"
      /\ req[s].resStatus >= 400
      /\ req[s].calls[Len(req[s].calls)] \in req[s].failed

\* C13: under any interleaving of updateStatus requests on one issue (and of
\* deletes of it), the entry a request appends to the log carries as
\* old_status the status the issue held immediately before that request's own
\* update was applied (so the entries of an issue, in the order of their
\* updates, chain old_status to the previous new_status).
C13_OldStatusHeldBeforeUpdate ==
  [][\A s \in Slots :
       (Steps(s) /\ req[s].pc = "issue_logs.insert" /\ Len(logs') = Len(logs) + 1)
         => logs'[Len(logs')].old_status = req[s].locals.statusBefore]_vars

=============================================================================
